---- MODULE Spec2Model ----
(***************************************************************************)
(* Model of scripts/fetch_bcv_rate.py: normalize_number, find_rate, main.  *)
(*                                                                         *)
(* A Python str is a sequence of one-character strings.  A Python float is *)
(* kept as its exact decimal value: the integer digits without leading     *)
(* zeros and the fractional digits without trailing zeros.  Distinct       *)
(* decimals of at most 15 significant digits are distinct doubles, and     *)
(* every text of the model stays below that, so equality and the           *)
(* comparison with 1 are those of the doubles.                             *)
(***************************************************************************)
EXTENDS Integers, Sequences, FiniteSets, TLC

VARIABLES
    pc,         \* position of the run: which call is pending, or "done"
    s,          \* argument of normalize_number
    val,        \* value returned by normalize_number
    text,       \* argument of find_rate / page text of main
    rate,       \* value returned by find_rate
    tier,       \* which part of find_rate produced rate: 1, 2, or 0 for neither
    ci,         \* main: GITHUB_ACTIONS == "true" or CI == "true"
    net,        \* main: what the two possible requests will meet
    gets,       \* main: the verify argument of every requests.get issued so far
    now,        \* main: the instant datetime.now(timezone.utc) returns
    file,       \* main: content of tasa.json
    file0,      \* main: content of tasa.json before the run
    writes,     \* main: number of times tasa.json was opened for writing
    exit_code   \* main: process exit status, -1 while running

vars ==
    <<pc, s, val, text, rate, tier, ci, net, gets, now, file, file0, writes, exit_code>>

(***************************************************************************)
(* Bounds of the model                                                     *)
(***************************************************************************)
MaxLen == 5        \* longest enumerated argument of normalize_number
MaxTokens == 3     \* most vocabulary pieces concatenated into a page text

(***************************************************************************)
(* Characters and strings                                                  *)
(***************************************************************************)
Digits == {"0", "1", "2", "3", "4", "5", "6", "7", "8", "9"}

Whitespace == {" ", "\n", "\r", "\t"}

\* the characters the class [0-9.,] accepts
NumChars == Digits \cup {".", ","}

RECURSIVE Filter(_, _)
\* the characters of str that are in keep, in order
Filter(str, keep) ==
    IF str = <<>> THEN <<>>
    ELSE (IF Head(str) \in keep THEN <<Head(str)>> ELSE <<>>) \o Filter(Tail(str), keep)

RECURSIVE LStrip(_)
LStrip(str) ==
    IF str # <<>> /\ Head(str) \in Whitespace THEN LStrip(Tail(str)) ELSE str

RECURSIVE RStrip(_)
RStrip(str) ==
    IF str # <<>> /\ str[Len(str)] \in Whitespace
    THEN RStrip(SubSeq(str, 1, Len(str) - 1))
    ELSE str

\* str.strip()
Strip(str) == RStrip(LStrip(str))

\* c in str
Contains(str, c) == \E i \in 1..Len(str) : str[i] = c

\* str.find(c): 0-based index of the first occurrence, -1 when absent
Find(str, c) ==
    IF Contains(str, c)
    THEN (CHOOSE i \in 1..Len(str) : str[i] = c /\ \A j \in 1..(i - 1) : str[j] # c) - 1
    ELSE -1

RECURSIVE Replace(_, _, _)
\* str.replace(c, by), by a string of length 0 or 1
Replace(str, c, by) ==
    IF str = <<>> THEN <<>>
    ELSE (IF Head(str) = c THEN by ELSE <<Head(str)>>) \o Replace(Tail(str), c, by)

(***************************************************************************)
(* Values                                                                  *)
(***************************************************************************)
None == [kind |-> "None", int |-> <<>>, frac |-> <<>>]

\* an exception leaving the function
Raised == [kind |-> "raise", int |-> <<>>, frac |-> <<>>]

RECURSIVE DropLeadingZeros(_)
DropLeadingZeros(ds) ==
    IF ds # <<>> /\ Head(ds) = "0" THEN DropLeadingZeros(Tail(ds)) ELSE ds

RECURSIVE DropTrailingZeros(_)
DropTrailingZeros(ds) ==
    IF ds # <<>> /\ ds[Len(ds)] = "0"
    THEN DropTrailingZeros(SubSeq(ds, 1, Len(ds) - 1))
    ELSE ds

\* the float whose decimal expansion is ip "." fp
Float(ip, fp) ==
    [kind |-> "float", int |-> DropLeadingZeros(ip), frac |-> DropTrailingZeros(fp)]

\* v > 1 for a float v
GreaterThanOne(v) ==
    \/ Len(v.int) >= 2
    \/ Len(v.int) = 1 /\ v.int[1] \notin {"0", "1"}
    \/ v.int = <<"1">> /\ v.frac # <<>>

\* length of the longest prefix of str made of characters of cls
RECURSIVE Run(_, _)
Run(str, cls) ==
    IF str # <<>> /\ Head(str) \in cls THEN 1 + Run(Tail(str), cls) ELSE 0

\* float(str) for a str of digits, '.' and ',': digits, an optional point,
\* digits, and at least one digit in all; anything else is a ValueError
ParseFloat(str) ==
    LET ni == Run(str, Digits)
        rest == SubSeq(str, ni + 1, Len(str))
        hasPoint == rest # <<>> /\ Head(rest) = "."
        fracPart == IF hasPoint THEN Tail(rest) ELSE rest
        nf == IF hasPoint THEN Run(fracPart, Digits) ELSE 0
    IN  IF (IF hasPoint THEN nf = Len(fracPart) ELSE rest = <<>>) /\ ni + nf >= 1
        THEN Float(SubSeq(str, 1, ni), SubSeq(fracPart, 1, nf))
        ELSE Raised

(***************************************************************************)
(* normalize_number                                                        *)
(***************************************************************************)
\* lines 32-33: strip, then drop everything but digits, '.' and ','
Clean(str) == Filter(Strip(str), NumChars)

\* faulty variant: the comparison of the two positions reversed
RewriteSeparatorsReversed(c) ==
    IF Contains(c, ".") /\ Contains(c, ",")
    THEN IF Find(c, ".") > Find(c, ",")
         THEN Replace(Replace(c, ".", <<>>), ",", <<".">>)
         ELSE Replace(c, ",", <<>>)
    ELSE IF Contains(c, ",") /\ ~Contains(c, ".")
         THEN Replace(c, ",", <<".">>)
         ELSE Replace(c, ",", <<>>)

\* faulty variant: the first branch forgets to turn the decimal ',' into '.'
RewriteSeparatorsNoPoint(c) ==
    IF Contains(c, ".") /\ Contains(c, ",")
    THEN IF Find(c, ".") < Find(c, ",")
         THEN Replace(c, ".", <<>>)
         ELSE Replace(c, ",", <<>>)
    ELSE IF Contains(c, ",") /\ ~Contains(c, ".")
         THEN Replace(c, ",", <<".">>)
         ELSE Replace(c, ",", <<>>)

\* faulty variant: a lone ',' taken for a thousands separator
RewriteSeparatorsCommaThousands(c) ==
    IF Contains(c, ".") /\ Contains(c, ",")
    THEN IF Find(c, ".") < Find(c, ",")
         THEN Replace(Replace(c, ".", <<>>), ",", <<".">>)
         ELSE Replace(c, ",", <<>>)
    ELSE Replace(c, ",", <<>>)

\* lines 37-49: decide which separator is the decimal one and rewrite
RewriteSeparators(c) ==
    IF Contains(c, ".") /\ Contains(c, ",")
    THEN IF Find(c, ".") < Find(c, ",")
         THEN Replace(Replace(c, ".", <<>>), ",", <<".">>)
         ELSE Replace(c, ",", <<>>)
    ELSE IF Contains(c, ",") /\ ~Contains(c, ".")
         THEN Replace(c, ",", <<".">>)
         ELSE Replace(c, ",", <<>>)

\* faulty variant: float() outside any try
TryFloatUncaught(str) == ParseFloat(str)

\* lines 50-53: float(), a failure to parse giving None
TryFloat(str) ==
    LET r == ParseFloat(str) IN IF r = Raised THEN None ELSE r

normalize_number(str) ==
    LET c == Clean(str)
    IN  IF c = <<>> THEN None ELSE TryFloat(RewriteSeparators(c))

(***************************************************************************)
(* Regular expressions of find_rate                                        *)
(***************************************************************************)
UpperCase ==
    <<"A", "B", "C", "D", "E", "F", "G", "H", "I", "J", "K", "L", "M", "N",
      "O", "P", "Q", "R", "S", "T", "U", "V", "W", "X", "Y", "Z", "Ó">>

LowerCase ==
    <<"a", "b", "c", "d", "e", "f", "g", "h", "i", "j", "k", "l", "m", "n",
      "o", "p", "q", "r", "s", "t", "u", "v", "w", "x", "y", "z", "ó">>

LowerMap ==
    [c \in {UpperCase[i] : i \in 1..Len(UpperCase)} |->
        LowerCase[CHOOSE i \in 1..Len(UpperCase) : UpperCase[i] = c]]

\* re.IGNORECASE: characters are compared by their lower-case form
Lower(c) == IF c \in DOMAIN LowerMap THEN LowerMap[c] ELSE c

\* a literal as a sequence of one-character classes
Lit(str) == [i \in 1..Len(str) |-> {str[i]}]

\* upper end of the window {0,20} between keyword and number
GapMax == 20

\* the class [^0-9\-\n\r]
IsGapChar(c) == c \notin (Digits \cup {"-", "\n", "\r"})

\* The three keyword patterns in the order of the list.  Each is its keyword
\* alternatives in the order the matcher tries them, every one followed by
\* the same [^0-9\-\n\r]{0,20}([0-9\.,]+); the optional "( de cambio)?" is
\* the alternative with it, tried first, then the one without.
Patterns ==
    << << <<{"d"}, {"o", "ó"}, {"l"}, {"a"}, {"r"}>>, Lit(<<"u", "s", "d">>) >>,
       << Lit(<<"t", "a", "s", "a", " ", "d", "e", " ", "c", "a", "m", "b", "i", "o">>),
          Lit(<<"t", "a", "s", "a">>) >>,
       << Lit(<<"o", "f", "i", "c", "i", "a", "l">>) >> >>

NoMatch == [start |-> 0, tok |-> <<>>, end |-> 0]

\* position after the keyword pre matched at i, 0 when it does not match there
PrefixEnd(pre, txt, i) ==
    IF /\ i + Len(pre) - 1 <= Len(txt)
       /\ \A k \in 1..Len(pre) : Lower(txt[i + k - 1]) \in pre[k]
    THEN i + Len(pre)
    ELSE 0

RECURSIVE GapRun(_, _)
\* number of consecutive characters of the gap class from position j on
GapRun(txt, j) ==
    IF j <= Len(txt) /\ IsGapChar(txt[j]) THEN 1 + GapRun(txt, j + 1) ELSE 0

Min(a, b) == IF a <= b THEN a ELSE b

Max(S) == CHOOSE x \in S : \A y \in S : y <= x

\* [^0-9\-\n\r]{0,20}([0-9\.,]+) from position j, the match starting at i: the
\* greedy window gives back characters until a character of [0-9.,] follows,
\* and the group then takes the whole run of such characters
TailAt(txt, i, j) ==
    LET g == Min(GapRun(txt, j), GapMax)
        ks == {k \in 0..g : j + k <= Len(txt) /\ txt[j + k] \in NumChars}
    IN  IF ks = {} THEN NoMatch
        ELSE LET b == j + Max(ks)
                 n == Run(SubSeq(txt, b, Len(txt)), NumChars)
             IN  [start |-> i, tok |-> SubSeq(txt, b, b + n - 1), end |-> b + n]

RECURSIVE AltMatch(_, _, _, _)
\* the match of the first alternative, from the a-th on, that matches at i
AltMatch(pat, a, txt, i) ==
    IF a > Len(pat) THEN NoMatch
    ELSE LET e == PrefixEnd(pat[a], txt, i)
             m == IF e = 0 THEN NoMatch ELSE TailAt(txt, i, e)
         IN  IF m # NoMatch THEN m ELSE AltMatch(pat, a + 1, txt, i)

MatchAt(pat, txt, i) == AltMatch(pat, 1, txt, i)

RECURSIVE Search(_, _, _)
\* the leftmost match of pat starting at position pos or later
Search(pat, txt, pos) ==
    IF pos > Len(txt) THEN NoMatch
    ELSE LET m == MatchAt(pat, txt, pos)
         IN  IF m # NoMatch THEN m ELSE Search(pat, txt, pos + 1)

RECURSIVE FindIter(_, _, _)
\* re.finditer(pat, txt): the captured groups of the non-overlapping matches,
\* left to right, searching from position pos
FindIter(pat, txt, pos) ==
    LET m == Search(pat, txt, pos)
    IN  IF m = NoMatch THEN <<>> ELSE <<m.tok>> \o FindIter(pat, txt, m.end)

\* most digits that the leading [0-9]{1,3} takes
LeadMax == 3

\* digits of one [.,][0-9]{3} group
GroupLen == 3

RECURSIVE GroupsEnd(_, _)
\* position after the greedy (?:[.,][0-9]{3})* from position p
GroupsEnd(txt, p) ==
    IF /\ p + GroupLen <= Len(txt)
       /\ txt[p] \in {".", ","}
       /\ \A k \in 1..GroupLen : txt[p + k] \in Digits
    THEN GroupsEnd(txt, p + GroupLen + 1)
    ELSE p

\* position after the greedy (?:[.,][0-9]+)? from position p
FractionEnd(txt, p) ==
    IF p + 1 <= Len(txt) /\ txt[p] \in {".", ","} /\ txt[p + 1] \in Digits
    THEN p + 1 + Run(SubSeq(txt, p + 1, Len(txt)), Digits)
    ELSE p

\* position after the match of
\* [0-9]{1,3}(?:[.,][0-9]{3})*(?:[.,][0-9]+)? that starts at the digit at i
NumberEnd(txt, i) ==
    FractionEnd(txt,
        GroupsEnd(txt, i + Min(Run(SubSeq(txt, i, Len(txt)), Digits), LeadMax)))

RECURSIVE FindAll(_, _)
\* re.findall of the generic number pattern, searching from position pos
FindAll(txt, pos) ==
    IF pos > Len(txt) THEN <<>>
    ELSE IF txt[pos] \notin Digits THEN FindAll(txt, pos + 1)
    ELSE LET e == NumberEnd(txt, pos)
         IN  <<SubSeq(txt, pos, e - 1)>> \o FindAll(txt, e)

(***************************************************************************)
(* find_rate                                                               *)
(***************************************************************************)
\* faulty variant: the first match decides, normalizable or not
FirstNormalizableNoSkip(toks) ==
    IF toks = <<>> THEN None ELSE normalize_number(Head(toks))

RECURSIVE FirstNormalizable(_)
\* lines 64-67: the first token, in order, that normalize_number accepts
FirstNormalizable(toks) ==
    IF toks = <<>> THEN None
    ELSE LET v == normalize_number(Head(toks))
         IN  IF v # None THEN v ELSE FirstNormalizable(Tail(toks))

RECURSIVE KeywordLoop(_, _)
\* lines 63-67: the patterns in order, from the p-th on
KeywordLoop(txt, p) ==
    IF p > Len(Patterns) THEN None
    ELSE LET v == FirstNormalizable(FindIter(Patterns[p], txt, 1))
         IN  IF v # None THEN v ELSE KeywordLoop(txt, p + 1)

Tier1(txt) == KeywordLoop(txt, 1)

\* faulty variant: the fallback keeps every number that normalizes
PlausibleAny(v) == v # None

\* line 74: the test a fallback number must pass
Plausible(v) == v # None /\ GreaterThanOne(v)

RECURSIVE Candidates(_)
\* lines 71-75
Candidates(nums) ==
    IF nums = <<>> THEN <<>>
    ELSE LET v == normalize_number(Head(nums))
         IN  (IF Plausible(v) THEN <<v>> ELSE <<>>) \o Candidates(Tail(nums))

\* faulty variant: the fallback returns the first candidate
Tier2First(txt) ==
    LET c == Candidates(FindAll(txt, 1))
    IN  IF c # <<>> THEN c[1] ELSE None

\* lines 70-78
Tier2(txt) ==
    LET c == Candidates(FindAll(txt, 1))
    IN  IF c # <<>> THEN c[Len(c)] ELSE None

\* The value find_rate returns, with the return statement that gave it:
\* tier 1 is line 67, tier 2 line 77, tier 0 the None of line 78.
find_rate(txt) ==
    LET v == Tier1(txt)
    IN  IF v # None THEN [val |-> v, tier |-> 1]
        ELSE LET w == Tier2(txt)
             IN  [val |-> w, tier |-> IF w # None THEN 2 ELSE 0]

(***************************************************************************)
(* Inputs                                                                  *)
(***************************************************************************)
\* characters of the enumerated arguments of normalize_number
NormAlphabet == {"0", "5", ".", ",", " ", "a"}

RECURSIVE Strings(_)
\* every string over NormAlphabet of length at most n
Strings(n) ==
    IF n = 0 THEN {<<>>}
    ELSE LET shorter == Strings(n - 1)
         IN  shorter \cup {<<c>> \o str : c \in NormAlphabet, str \in shorter}

Ex1 == <<"1", ".", "2", "3", "4", ",", "5", "6">>

Ex2 == <<"1", ",", "2", "3", "4", ".", "5", "6">>

Ex3 == <<"1", "2", "3", "4">>

Ex4 == <<"a", "b", "c">>

Ex5 == <<" ", "B", "s", ".", " ", "3", "6", ",", "5", "0", " ">>

NormInputs == Strings(MaxLen) \cup {Ex1, Ex2, Ex3, Ex4, Ex5}

\* pieces the enumerated page texts are concatenated from
KwDolar == <<"D", "ó", "l", "a", "r">>

KwUsd == <<"u", "s", "d">>

KwTasa == <<"T", "a", "s", "a">>

DeCambio == <<" ", "d", "e", " ", "c", "a", "m", "b", "i", "o">>

KwOficial == <<"O", "F", "I", "C", "I", "A", "L">>

Referencia == <<" ", "r", "e", "f", "e", "r", "e", "n", "c", "i", "a">>

Half == <<"0", ",", "5">>

Grouped == <<"1", ".", "2", "3", "4">>

Pieces ==
    {KwDolar, KwUsd, KwTasa, DeCambio, KwOficial, Referencia,
     <<"1">>, Half, Grouped, <<",">>, <<".">>, <<"\n">>}

RECURSIVE Texts(_)
\* every concatenation of at most n pieces
Texts(n) ==
    IF n = 0 THEN {<<>>}
    ELSE LET shorter == Texts(n - 1)
         IN  shorter \cup {p \o str : p \in Pieces, str \in shorter}

PageDolar ==
    <<"D", "ó", "l", "a", "r", " ", "h", "o", "y", ":", " ", "3", "6", ",",
      "5", "0", " ", "p", "u", "n", "t", "o", "s">>

PageItems ==
    <<".", ".", ".", " ", "1", "2", " ", "i", "t", "e", "m", "s", ",", " ",
      "2", "0", "2", "4", ",", " ", "5", "5", ",", "1", "2", " ", "r", "e",
      "f", "e", "r", "e", "n", "c", "i", "a">>

PageTasa ==
    <<"T", "a", "s", "a", " ", "d", "e", " ", "c", "a", "m", "b", "i", "o",
      ":", " ", "4", "0", ",", "1", "2", "3", "4">>

PageNoNumber ==
    <<"B", "a", "n", "c", "o", " ", "C", "e", "n", "t", "r", "a", "l", " ",
      "d", "e", " ", "V", "e", "n", "e", "z", "u", "e", "l", "a">>

PagePriority ==
    <<"T", "a", "s", "a", " ", "7", ",", "5", " ", "U", "S", "D", " ", "3",
      "6", ",", "5", "0">>

PageSkip ==
    <<"T", "a", "s", "a", " ", "7", ",", "5", " ", "D", "ó", "l", "a", "r",
      " ", ".", ".", ".", " ", "-", " ", "u", "s", "d", ":", " ", "1", ".",
      "2", "3", "4", ",", "5", "6">>

PageGrouped ==
    <<"t", "o", "t", "a", "l", " ", "1", ".", "2", "3", "4", ".", "5", "6",
      "7", " ", "y", " ", "2", ",", "5", " ", "o", " ", "0", ",", "5">>

PageSmall ==
    <<"U", "S", "D", " ", "0", ",", "5", " ", "t", "i", "p", "o", " ", "3",
      "6", ",", "5", "0">>

ExamplePages ==
    {PageDolar, PageItems, PageTasa, PageNoNumber, PagePriority, PageSkip,
     PageGrouped, PageSmall}

TextInputs == Texts(MaxTokens) \cup ExamplePages

(***************************************************************************)
(* State machine                                                           *)
(***************************************************************************)
URL == "https://www.bcv.org.ve/"

NoFile == [date |-> [day |-> 0], rate |-> None, source |-> "", fetched_at |-> [day |-> 0, hour |-> 0]]

\* now.strftime("%Y-%m-%d"): the calendar date of the instant
StrfDate(t) == [day |-> t.day]

\* now.isoformat(): date and time of day of the instant
IsoFormat(t) == [day |-> t.day, hour |-> t.hour]

\* faulty variant: the date taken from local time, four hours behind UTC
BuildRecordLocalDate(t, r) ==
    [date |-> StrfDate(IF t.hour < 4 THEN [day |-> t.day - 1, hour |-> t.hour + 20]
                       ELSE [day |-> t.day, hour |-> t.hour - 4]),
     rate |-> r, source |-> URL, fetched_at |-> IsoFormat(t)]

\* lines 124-129
BuildRecord(t, r) ==
    [date |-> StrfDate(t), rate |-> r, source |-> URL, fetched_at |-> IsoFormat(t)]

OldRecord == BuildRecord([day |-> 1, hour |-> 12], Float(<<"3", "5">>, <<"9">>))

Instants == [day : {2, 3}, hour : {0, 23}]

Outcomes == {"ok", "ssl", "conn", "http"}

Idle ==
    /\ ci = FALSE
    /\ net = [first |-> "ok", second |-> "ok"]
    /\ gets = <<>>
    /\ now = [day |-> 2, hour |-> 0]
    /\ file = NoFile
    /\ file0 = NoFile
    /\ writes = 0
    /\ exit_code = -1

mainVars == <<ci, net, gets, now, file, file0, writes, exit_code>>

\* ---- normalize_number called on one argument
InitN ==
    /\ pc = "normalize"
    /\ s \in NormInputs
    /\ val = None
    /\ text = <<>>
    /\ rate = None
    /\ tier = 0
    /\ Idle

Normalize ==
    /\ pc = "normalize"
    /\ val' = normalize_number(s)
    /\ pc' = "done"
    /\ UNCHANGED <<s, text, rate, tier, mainVars>>

NextN == Normalize

SpecN == InitN /\ [][NextN]_vars

\* ---- find_rate called on one text
InitF ==
    /\ pc = "find_rate"
    /\ text \in TextInputs
    /\ s = <<>>
    /\ val = None
    /\ rate = None
    /\ tier = 0
    /\ Idle

FindRate ==
    /\ pc = "find_rate"
    /\ LET r == find_rate(text) IN rate' = r.val /\ tier' = r.tier
    /\ pc' = "done"
    /\ UNCHANGED <<s, val, text, mainVars>>

NextF == FindRate

SpecF == InitF /\ [][NextF]_vars

\* ---- one run of main
Init ==
    /\ pc = "get"
    /\ s = <<>>
    /\ val = None
    /\ text \in ExamplePages
    /\ rate = None
    /\ tier = 0
    /\ ci \in BOOLEAN
    /\ net \in [first : Outcomes, second : Outcomes]
    /\ gets = <<>>
    /\ now \in Instants
    /\ file \in {NoFile, OldRecord}
    /\ file0 = file
    /\ writes = 0
    /\ exit_code = -1

\* sys.exit(code)
Exit(code) == exit_code' = code /\ pc' = "done"

\* faulty variant: the retry allowed everywhere
is_ci_always == TRUE

\* line 99
is_ci == ci

\* lines 83-86 and 111-113: the verified request; an SSL error goes to its
\* handler, any other failure (raise_for_status included) ends the run with 1
FirstGet ==
    /\ pc = "get"
    /\ gets' = Append(gets, [url |-> URL, verify |-> TRUE])
    /\ CASE net.first = "ok" -> pc' = "parse" /\ UNCHANGED exit_code
         [] net.first = "ssl" -> pc' = "ssl_error" /\ UNCHANGED exit_code
         [] OTHER -> Exit(1)
    /\ UNCHANGED <<s, val, text, rate, tier, ci, net, now, file, file0, writes>>

\* lines 87-100 and 109-110: outside CI the SSL error ends the run with 1
SslError ==
    /\ pc = "ssl_error"
    /\ IF is_ci THEN pc' = "retry" /\ UNCHANGED exit_code ELSE Exit(1)
    /\ UNCHANGED <<s, val, text, rate, tier, ci, net, gets, now, file, file0, writes>>

\* lines 101-108: the request without verification; any failure ends with 1
Retry ==
    /\ pc = "retry"
    /\ gets' = Append(gets, [url |-> URL, verify |-> FALSE])
    /\ IF net.second = "ok" THEN pc' = "parse" /\ UNCHANGED exit_code ELSE Exit(1)
    /\ UNCHANGED <<s, val, text, rate, tier, ci, net, now, file, file0, writes>>

\* find_rate on each page of the model, tabulated
PageRate == [p \in ExamplePages |-> find_rate(p)]

\* faulty variant: "rate not found" leaves with the code of a failed fetch
ExtractExitOne ==
    /\ pc = "parse"
    /\ LET r == PageRate[text] IN rate' = r.val /\ tier' = r.tier
    /\ IF rate' = None THEN Exit(1) ELSE pc' = "write" /\ UNCHANGED exit_code
    /\ UNCHANGED <<s, val, text, ci, net, gets, now, file, file0, writes>>

\* lines 115-121: text is soup.get_text(" ", strip=True)
Extract ==
    /\ pc = "parse"
    /\ LET r == PageRate[text] IN rate' = r.val /\ tier' = r.tier
    /\ IF rate' = None THEN Exit(2) ELSE pc' = "write" /\ UNCHANGED exit_code
    /\ UNCHANGED <<s, val, text, ci, net, gets, now, file, file0, writes>>

\* lines 123-134, and the return from main
WriteFile ==
    /\ pc = "write"
    /\ file' = BuildRecord(now, rate)
    /\ writes' = writes + 1
    /\ Exit(0)
    /\ UNCHANGED <<s, val, text, rate, tier, ci, net, gets, now, file0>>

Next == FirstGet \/ SslError \/ Retry \/ Extract \/ WriteFile

Spec == Init /\ [][Next]_vars

\* The run is one sequential process: each statement is executed once the
\* one before it has returned, and each request returns or raises within
\* its timeout of 20 seconds.
FairSpec == Spec /\ WF_vars(Next)

(***************************************************************************)
(* Properties                                                              *)
(***************************************************************************)
\* what is left of str once everything but digits, '.' and ',' is removed
Kept(str) == Filter(str, NumChars)

\* 1-based position of the first c in str
FirstIndex(str, c) == CHOOSE i \in 1..Len(str) : str[i] = c /\ \A j \in 1..(i - 1) : str[j] # c

\* a decimal numeral: digits and at most one point, with a digit somewhere
WellFormedDecimal(str) ==
    /\ \A i \in 1..Len(str) : str[i] \in Digits \cup {"."}
    /\ Cardinality({i \in 1..Len(str) : str[i] = "."}) <= 1
    /\ \E i \in 1..Len(str) : str[i] \in Digits

\* the number a decimal numeral denotes, None for anything else
DecimalValue(str) ==
    IF ~WellFormedDecimal(str) THEN None
    ELSE IF Contains(str, ".")
         THEN LET p == FirstIndex(str, ".")
              IN  Float(SubSeq(str, 1, p - 1), SubSeq(str, p + 1, Len(str)))
         ELSE Float(str, <<>>)

\* str with every occurrence of the separator th removed and every
\* occurrence of the separator dec written as a point
WithoutThousands(str, th, dec) ==
    LET kept == Filter(str, NumChars \ {th})
    IN  [i \in 1..Len(kept) |-> IF kept[i] = dec THEN "." ELSE kept[i]]

\* C1: when the argument, reduced to digits, '.' and ',', holds both
\* separators, normalize_number removes every occurrence of the separator
\* whose first occurrence comes first, reads the other one as the decimal
\* point and returns the value of the resulting decimal string (None when
\* that string is no decimal numeral).
C1_EarlierSeparatorIsThousands ==
    (pc = "done" /\ Contains(Kept(s), ".") /\ Contains(Kept(s), ","))
        => LET k == Kept(s)
               th == IF FirstIndex(k, ".") < FirstIndex(k, ",") THEN "." ELSE ","
               dec == IF th = "." THEN "," ELSE "."
           IN  val = DecimalValue(WithoutThousands(k, th, dec))

C1_Witness ==
    pc = "done" /\ s = Ex1 /\ val = Float(<<"1", "2", "3", "4">>, <<"5", "6">>)

\* str with every '.' and ',' exchanged
SwapSeparators(str) ==
    [i \in 1..Len(str) |->
        IF str[i] = "." THEN "," ELSE IF str[i] = "," THEN "." ELSE str[i]]

\* C2: on a string holding both '.' and ',', normalize_number returns the
\* same result (the same value, or None both times) as on the string with
\* every '.' and ',' exchanged.
C2_SwapInvariant ==
    (pc = "done" /\ Contains(s, ".") /\ Contains(s, ","))
        => val = normalize_number(SwapSeparators(s))

C2_Witness ==
    /\ pc = "done"
    /\ s = Ex2
    /\ SwapSeparators(s) = Ex1
    /\ val = Float(<<"1", "2", "3", "4">>, <<"5", "6">>)

\* C3: normalize_number never raises; it returns None when nothing is left
\* after removing everything but digits, '.' and ',', and when the
\* separator-rewritten string is no decimal numeral; in every other case it
\* returns a number.
C3_NoneNeverRaise ==
    pc = "done"
        => /\ val # Raised
           /\ Kept(s) = <<>> => val = None
           /\ (Kept(s) # <<>> /\ ~WellFormedDecimal(RewriteSeparators(Kept(s))))
                  => val = None
           /\ (Kept(s) # <<>> /\ WellFormedDecimal(RewriteSeparators(Kept(s))))
                  => val.kind = "float"

C3_Witness ==
    /\ pc = "done"
    /\ s = <<"0", ",", "5", ",", "5">>
    /\ RewriteSeparators(Kept(s)) = <<"0", ".", "5", ".", "5">>
    /\ val = None

\* the captured tokens of the p-th keyword pattern, in document order
Tokens(p) == FindIter(Patterns[p], text, 1)

\* the positions, among the matches of the p-th pattern, of those whose
\* token normalizes
Normalizable(p) ==
    {k \in 1..Len(Tokens(p)) : normalize_number(Tokens(p)[k]) # None}

\* the patterns with at least one normalizable match
Winning == {p \in 1..Len(Patterns) : Normalizable(p) # {}}

Least(S) == CHOOSE x \in S : \A y \in S : x <= y

\* C4: the keyword patterns are tried in the order Dolar/USD, Tasa,
\* Oficial and the matches of one pattern in document order; a match whose
\* token does not normalize is skipped; the result is the normalized token
\* of the first normalizable match of the highest-priority pattern that has
\* one, wherever the matches of the later patterns are.
C4_KeywordPriority ==
    (pc = "done" /\ Winning # {})
        => LET p == Least(Winning)
           IN  /\ rate = normalize_number(Tokens(p)[Least(Normalizable(p))])
               /\ tier = 1

C4_Witness ==
    /\ pc = "done"
    /\ text = PageSkip
    /\ Winning = {1, 2}
    /\ Tokens(2)[1] = <<"7", ",", "5">>
    /\ Tokens(1) = << <<".">>, <<"1", ".", "2", "3", "4", ",", "5", "6">> >>
    /\ rate = Float(<<"1", "2", "3", "4">>, <<"5", "6">>)
    /\ tier = 1

\* the positions, among the generic number-shaped substrings of the text,
\* of those whose value is not None and greater than 1
Acceptable ==
    LET nums == FindAll(text, 1)
    IN  {k \in 1..Len(nums) :
            /\ normalize_number(nums[k]) # None
            /\ GreaterThanOne(normalize_number(nums[k]))}

\* C5: when no keyword match normalizes, find_rate returns the last, in
\* document order, of the generic number-shaped substrings whose value is
\* not None and greater than 1, and None when there is none; the fallback
\* is not consulted when a keyword match normalizes.
C5_FallbackLast ==
    pc = "done"
        => IF Winning # {} THEN tier = 1
           ELSE IF Acceptable = {} THEN rate = None /\ tier = 0
           ELSE /\ rate = normalize_number(FindAll(text, 1)[Max(Acceptable)])
                /\ tier = 2

C5_Witness ==
    /\ pc = "done"
    /\ text = PageItems
    /\ Winning = {}
    /\ FindAll(text, 1) = << <<"1", "2">>, <<"2", "0", "2">>, <<"4">>, <<"5", "5", ",", "1", "2">> >>
    /\ rate = Float(<<"5", "5">>, <<"1", "2">>)
    /\ tier = 2

\* C6 as stated: every value find_rate returns is greater than 1, whichever
\* tier produced it.
C6_AnyTierAboveOne ==
    (pc = "done" /\ rate # None) => GreaterThanOne(rate)

\* C6 amended: every value the fallback scan returns is greater than 1; a
\* value the keyword tier returns is whatever number the first normalizable
\* token denotes, greater than 1 or not.
C6_FallbackAboveOne ==
    (pc = "done" /\ rate # None /\ tier # 1) => (tier = 2 /\ GreaterThanOne(rate))

C6_Witness ==
    /\ pc = "done"
    /\ text = PageGrouped
    /\ FindAll(text, 1) =
           << <<"1", ".", "2", "3", "4", ".", "5", "6", "7">>, <<"2", ",", "5">>, <<"0", ",", "5">> >>
    /\ rate = Float(<<"2">>, <<"5">>)
    /\ tier = 2

\* the patterns with at least one match
Matching == {p \in 1..Len(Patterns) : Tokens(p) # <<>>}

\* digits, one comma, digits
DigitsCommaDigits(tok) ==
    \E p \in 2..(Len(tok) - 1) :
        /\ tok[p] = ","
        /\ \A i \in (1..Len(tok)) \ {p} : tok[i] \in Digits

\* C7: when the first match of the highest-priority pattern that matches
\* at all is a keyword, at most 20 characters other than digits, '-' and
\* newlines, and then a number written as digits, one comma, digits,
\* find_rate returns the value of that number with the comma as decimal
\* point, from the keyword tier, whatever else the text holds.
C7_KeywordCommaNumber ==
    (pc = "done" /\ Matching # {} /\ DigitsCommaDigits(Tokens(Least(Matching))[1]))
        => LET tok == Tokens(Least(Matching))[1]
               p == FirstIndex(tok, ",")
           IN  /\ rate = Float(SubSeq(tok, 1, p - 1), SubSeq(tok, p + 1, Len(tok)))
               /\ tier = 1

C7_Witness ==
    /\ pc = "done"
    /\ text = PageDolar
    /\ Tokens(Least(Matching))[1] = <<"3", "6", ",", "5", "0">>
    /\ rate = Float(<<"3", "6">>, <<"5">>)
    /\ tier = 1

\* C8: a request without verification is issued only after the verified
\* request failed with an SSL error and with the CI flag set, and at most
\* once, so a run issues at most two requests; a first request that fails
\* otherwise is never retried.
C8_UnverifiedOnlyAfterSslInCi ==
    /\ Len(gets) <= 2
    /\ \A i \in 1..Len(gets) :
           gets[i].verify = FALSE
               => i = 2 /\ gets[1].verify = TRUE /\ net.first = "ssl" /\ ci
    /\ net.first \in {"conn", "http"} => Len(gets) <= 1
    /\ pc = "done" => Len(gets) >= 1

C8_Witness ==
    /\ pc = "done"
    /\ ci
    /\ net.first = "ssl"
    /\ Len(gets) = 2
    /\ gets[2].verify = FALSE

\* the fetch failed: a failure other than SSL, an SSL failure outside CI,
\* or an SSL failure in CI followed by a failed retry
FetchFailed ==
    \/ net.first \in {"conn", "http"}
    \/ net.first = "ssl" /\ ~ci
    \/ net.first = "ssl" /\ ci /\ net.second # "ok"

\* C9: every run ends, with exactly one of three codes: 1 exactly when the
\* fetch failed, 2 exactly when the fetch succeeded and find_rate returned
\* None, 0 exactly when the fetch succeeded and find_rate returned a value.
C9_ExitCodes ==
    /\ <>(pc = "done")
    /\ [](pc # "done" => exit_code = -1)
    /\ [](pc = "done"
             => /\ exit_code \in {0, 1, 2}
                /\ exit_code = 1 <=> FetchFailed
                /\ exit_code = 2 <=> (~FetchFailed /\ find_rate(text).val = None)
                /\ exit_code = 0 <=> (~FetchFailed /\ find_rate(text).val # None))

C9_Witness ==
    /\ pc = "done"
    /\ exit_code = 2
    /\ net.first = "ok"
    /\ text = PageNoNumber

\* the calendar date an ISO timestamp starts with
DateOfIso(stamp) == [day |-> stamp.day]

\* C10: tasa.json is written at most once, and exactly when the fetch
\* succeeded and find_rate returned a value; a run that ends with 1 or 2
\* leaves it as it was; the record written holds the value find_rate
\* returned, the URL that was fetched, and a date and a timestamp of one
\* and the same UTC instant.
C10_RecordWrittenOnce ==
    /\ writes <= 1
    /\ writes = 0 => file = file0
    /\ pc = "done"
           => /\ writes = 1 <=> (~FetchFailed /\ find_rate(text).val # None)
              /\ exit_code \in {1, 2} => (writes = 0 /\ file = file0)
    /\ writes = 1
           => /\ file.rate = find_rate(text).val
              /\ \A i \in 1..Len(gets) : file.source = gets[i].url
              /\ file.fetched_at = IsoFormat(now)
              /\ file.date = DateOfIso(file.fetched_at)

C10_Witness ==
    /\ pc = "done"
    /\ writes = 1
    /\ text = PageTasa
    /\ file0 = OldRecord
    /\ now.hour = 0
    /\ file = [date |-> [day |-> now.day],
               rate |-> Float(<<"4", "0">>, <<"1", "2", "3", "4">>),
               source |-> URL,
               fetched_at |-> [day |-> now.day, hour |-> 0]]

====
